---- MODULE Spec2Model ----
(***************************************************************************)
(* The PSP20 token ledger (src/v6psp20/lib.rs, struct Token) and the piggy *)
(* bank vault (src/v6psp20piggy/lib.rs, struct V6psp20piggybank) that      *)
(* holds deposits of that token.  Every message of a contract is a pure    *)
(* operator from the contract's storage and the call's inputs to a result  *)
(* and the storage after the call; one action per message applies it.      *)
(***************************************************************************)
EXTENDS Integers, Sequences, FiniteSets, TLC

VARIABLES token, piggy, now, initial_supply, last, steps

vars == <<token, piggy, now, initial_supply, last, steps>>

(* ------------------------------ bounds --------------------------------- *)

\* Balance is u128; BalanceMax stands for u128::MAX.
BalanceMax == 2

\* Timestamps are u64; the model's clock runs over 0..MaxTime.
MaxTime == 1

\* Longest recipients list handed to batch_transfer.
MaxBatch == 2

\* Number of messages in a run of the whole system.
MaxSteps == 2

\* Number of messages in a run of one saver with the piggy bank.
MaxPiggySteps == 4

\* Number of messages in a run of deposits and withdrawals.
MaxDepositSteps == 5

(* ----------------------------- accounts -------------------------------- *)

\* The externally owned accounts that send messages.
Users == {"alice", "bob"}

\* The address the piggy bank contract is deployed at.
PiggyAddress == "piggy"

\* The address the token contract is deployed at.
TokenAddress == "token"

\* Every H160 that holds tokens or appears as an argument.
Accounts == Users \cup {PiggyAddress}

Balances == 0..BalanceMax

\* The initial supplies the token is constructed with: a small one and the
\* largest.
InitialSupplies == {1, BalanceMax}

Times == 0..MaxTime

(* ------------------------- arithmetic, options ------------------------- *)

saturating_add(a, b) == IF a + b > BalanceMax THEN BalanceMax ELSE a + b

saturating_sub(a, b) == IF a < b THEN 0 ELSE a - b

\* Option<T>: None is the empty tuple, Some(v) the one-element tuple.
None == <<>>

Some(v) == <<v>>

unwrap_or(o, d) == IF o = None THEN d ELSE o[1]

RECURSIVE SumOver(_, _)
\* The sum of f over the finite set S.
SumOver(f, S) ==
    IF S = {} THEN 0
    ELSE LET x == CHOOSE y \in S : TRUE IN f[x] + SumOver(f, S \ {x})

(* ------------------------------ Token ---------------------------------- *)
\* The storage of Token is a record.  balances, allowances and blacklist are
\* Mappings the contract reads only through unwrap_or(0) / unwrap_or(false)
\* and never removes a non-default entry from other than by blacklist.remove:
\* an absent key is held as the default the read returns.

Ok == "Ok"

TokenErrors == {"InsufficientBalance", "InsufficientAllowance", "Paused",
                "Blacklisted", "Unauthorized"}

Token_new(caller, supply) ==
    [ total_supply |-> supply,
      balances     |-> [a \in Accounts |-> IF a = caller THEN supply ELSE 0],
      allowances   |-> [p \in Accounts \X Accounts |-> 0],
      owner        |-> caller,
      paused       |-> FALSE,
      blacklist    |-> [a \in Accounts |-> FALSE] ]

total_supply(self) == self.total_supply

balance_of(self, owner) == self.balances[owner]

allowance(self, owner, spender) == self.allowances[<<owner, spender>>]

is_paused(self) == self.paused

is_blacklisted(self, account) == self.blacklist[account]

\* A message's outcome: its result and the storage it leaves.
Ret(res, st) == [res |-> res, st |-> st]

\* transfer_from_to reading the recipient's balance before the sender's debit
\* is stored.
transfer_from_to_stale_read(self, from, to, value) ==
    IF self.paused THEN Ret("Paused", self)
    ELSE IF is_blacklisted(self, from) \/ is_blacklisted(self, to)
    THEN Ret("Blacklisted", self)
    ELSE LET from_balance == balance_of(self, from)
             to_balance == balance_of(self, to)
         IN IF from_balance < value THEN Ret("InsufficientBalance", self)
            ELSE Ret(Ok, [[self EXCEPT !.balances[from] =
                                          saturating_sub(from_balance, value)]
                                EXCEPT !.balances[to] =
                                          saturating_add(to_balance, value)])

\* transfer_from_to without the pause check.
transfer_from_to_no_pause_check(self, from, to, value) ==
    IF is_blacklisted(self, from) \/ is_blacklisted(self, to)
    THEN Ret("Blacklisted", self)
    ELSE LET from_balance == balance_of(self, from) IN
         IF from_balance < value THEN Ret("InsufficientBalance", self)
         ELSE LET s1 == [self EXCEPT !.balances[from] =
                                        saturating_sub(from_balance, value)]
              IN Ret(Ok, [s1 EXCEPT !.balances[to] =
                                        saturating_add(balance_of(s1, to), value)])

\* transfer_from_to testing only the sender against the blacklist.
transfer_from_to_sender_only(self, from, to, value) ==
    IF self.paused THEN Ret("Paused", self)
    ELSE IF is_blacklisted(self, from) THEN Ret("Blacklisted", self)
    ELSE LET from_balance == balance_of(self, from) IN
         IF from_balance < value THEN Ret("InsufficientBalance", self)
         ELSE LET s1 == [self EXCEPT !.balances[from] =
                                        saturating_sub(from_balance, value)]
              IN Ret(Ok, [s1 EXCEPT !.balances[to] =
                                        saturating_add(balance_of(s1, to), value)])

transfer_from_to(self, from, to, value) ==
    IF self.paused THEN Ret("Paused", self)
    ELSE IF is_blacklisted(self, from) \/ is_blacklisted(self, to)
    THEN Ret("Blacklisted", self)
    ELSE LET from_balance == balance_of(self, from) IN
         IF from_balance < value THEN Ret("InsufficientBalance", self)
         ELSE LET s1 == [self EXCEPT !.balances[from] =
                                        saturating_sub(from_balance, value)]
                  to_balance == balance_of(s1, to)
                  s2 == [s1 EXCEPT !.balances[to] =
                                        saturating_add(to_balance, value)]
              IN Ret(Ok, s2)

transfer(self, caller, to, value) == transfer_from_to(self, caller, to, value)

\* approve adding to the stored allowance instead of replacing it.
approve_additive(self, caller, spender, value) ==
    Ret(Ok, [self EXCEPT !.allowances[<<caller, spender>>] =
                              saturating_add(allowance(self, caller, spender), value)])

approve(self, caller, spender, value) ==
    Ret(Ok, [self EXCEPT !.allowances[<<caller, spender>>] = value])

\* transfer_from testing the allowance after the transfer's own checks.
transfer_from_allowance_last(self, caller, from, to, value) ==
    LET allowance_ == allowance(self, from, caller)
        r == transfer_from_to(self, from, to, value)
    IN IF r.res # Ok THEN r
       ELSE IF allowance_ < value THEN Ret("InsufficientAllowance", self)
       ELSE Ret(Ok, [r.st EXCEPT !.allowances[<<from, caller>>] =
                                      saturating_sub(allowance_, value)])

\* transfer_from storing the lowered allowance before the transfer is tried.
transfer_from_spend_first(self, caller, from, to, value) ==
    LET allowance_ == allowance(self, from, caller) IN
    IF allowance_ < value THEN Ret("InsufficientAllowance", self)
    ELSE LET s1 == [self EXCEPT !.allowances[<<from, caller>>] =
                                   saturating_sub(allowance_, value)]
             r == transfer_from_to(s1, from, to, value)
         IN r

transfer_from(self, caller, from, to, value) ==
    LET allowance_ == allowance(self, from, caller) IN
    IF allowance_ < value THEN Ret("InsufficientAllowance", self)
    ELSE LET r == transfer_from_to(self, from, to, value) IN
         IF r.res # Ok THEN r
         ELSE Ret(Ok, [r.st EXCEPT !.allowances[<<from, caller>>] =
                                        saturating_sub(allowance_, value)])

\* mint refused while the token is paused.
mint_unless_paused(self, caller, value) ==
    LET balance == balance_of(self, caller) IN
    IF self.paused THEN Ret("Paused", self)
    ELSE Ret(Ok, [self EXCEPT !.balances[caller] = saturating_add(balance, value),
                              !.total_supply = saturating_add(self.total_supply, value)])

\* mint with the owner test of the administration messages.
mint_owner_only(self, caller, value) ==
    LET balance == balance_of(self, caller) IN
    IF caller # self.owner THEN Ret("Unauthorized", self)
    ELSE Ret(Ok, [self EXCEPT !.balances[caller] = saturating_add(balance, value),
                              !.total_supply = saturating_add(self.total_supply, value)])

mint(self, caller, value) ==
    LET balance == balance_of(self, caller) IN
    Ret(Ok, [self EXCEPT !.balances[caller] = saturating_add(balance, value),
                         !.total_supply = saturating_add(self.total_supply, value)])

\* burn without the balance test.
burn_unchecked(self, caller, value) ==
    LET balance == balance_of(self, caller) IN
    Ret(Ok, [self EXCEPT !.balances[caller] = saturating_sub(balance, value),
                         !.total_supply = saturating_sub(self.total_supply, value)])

burn(self, caller, value) ==
    LET balance == balance_of(self, caller) IN
    IF balance < value THEN Ret("InsufficientBalance", self)
    ELSE Ret(Ok, [self EXCEPT !.balances[caller] = saturating_sub(balance, value),
                              !.total_supply = saturating_sub(self.total_supply, value)])

increase_allowance(self, caller, spender, delta_value) ==
    LET current_allowance == allowance(self, caller, spender) IN
    Ret(Ok, [self EXCEPT !.allowances[<<caller, spender>>] =
                              saturating_add(current_allowance, delta_value)])

\* decrease_allowance without the allowance test: the subtraction clamps at 0.
decrease_allowance_clamping(self, caller, spender, delta_value) ==
    LET current_allowance == allowance(self, caller, spender) IN
    Ret(Ok, [self EXCEPT !.allowances[<<caller, spender>>] =
                              saturating_sub(current_allowance, delta_value)])

decrease_allowance(self, caller, spender, delta_value) ==
    LET current_allowance == allowance(self, caller, spender) IN
    IF current_allowance < delta_value THEN Ret("InsufficientAllowance", self)
    ELSE Ret(Ok, [self EXCEPT !.allowances[<<caller, spender>>] =
                              saturating_sub(current_allowance, delta_value)])

\* pause without the owner test.
pause_by_anyone(self, caller) ==
    Ret(Ok, [self EXCEPT !.paused = TRUE])

pause(self, caller) ==
    IF caller # self.owner THEN Ret("Unauthorized", self)
    ELSE Ret(Ok, [self EXCEPT !.paused = TRUE])

unpause(self, caller) ==
    IF caller # self.owner THEN Ret("Unauthorized", self)
    ELSE Ret(Ok, [self EXCEPT !.paused = FALSE])

blacklist_address(self, caller, account) ==
    IF caller # self.owner THEN Ret("Unauthorized", self)
    ELSE Ret(Ok, [self EXCEPT !.blacklist[account] = TRUE])

remove_from_blacklist(self, caller, account) ==
    IF caller # self.owner THEN Ret("Unauthorized", self)
    ELSE Ret(Ok, [self EXCEPT !.blacklist[account] = FALSE])

RECURSIVE batch_transfer_skip_failed(_, _, _)
\* batch_transfer dropping each entry's result and going on.
batch_transfer_skip_failed(self, caller, recipients) ==
    IF recipients = <<>> THEN Ret(Ok, self)
    ELSE batch_transfer_skip_failed(
             transfer(self, caller, Head(recipients)[1], Head(recipients)[2]).st,
             caller, Tail(recipients))

RECURSIVE batch_transfer(_, _, _)
\* recipients is a sequence of <<to, value>>; the ? operator returns the first
\* error with the storage as the earlier entries left it.
batch_transfer(self, caller, recipients) ==
    IF recipients = <<>> THEN Ret(Ok, self)
    ELSE LET r == transfer(self, caller, Head(recipients)[1], Head(recipients)[2]) IN
         IF r.res # Ok THEN r
         ELSE batch_transfer(r.st, caller, Tail(recipients))

(* --------------------------- V6psp20piggybank -------------------------- *)
\* balances, goals and lock_times are Mappings of Option entries: the
\* contract removes entries and tests goals and lock_times with `if let Some`.

PiggyErrors == {"InsufficientBalance", "GoalNotReached", "WithdrawalTooEarly",
                "Unauthorized", "ZeroAmount", "TokenTransferFailed"}

Piggy_new(caller, token_address) ==
    [ token_address |-> token_address,
      balances      |-> [a \in Users |-> None],
      goals         |-> [a \in Users |-> None],
      lock_times    |-> [a \in Users |-> None],
      owner         |-> caller ]

\* self.env().account_id() of the piggy bank: an AccountId, held as its first
\* 20 bytes (the contract's H160) and the 12 bytes that follow.
PiggyAccountId == <<PiggyAddress, "suffix">>

convert_account_id_to_h160(account) == account[1]

convert_account_to_h160(account) == convert_account_id_to_h160(account)

piggy_balance_of(self, owner) == unwrap_or(self.balances[owner], 0)

goal_of(self, owner) == unwrap_or(self.goals[owner], 0)

lock_time_of(self, owner) == unwrap_or(self.lock_times[owner], 0)

\* is_goal_reached reading the goal through goal_of, 0 when none is stored.
is_goal_reached_default_goal(self, owner) ==
    piggy_balance_of(self, owner) >= goal_of(self, owner)

is_goal_reached(self, owner) ==
    LET balance == piggy_balance_of(self, owner) IN
    IF self.goals[owner] # None THEN balance >= self.goals[owner][1] ELSE FALSE

\* build_call().call(callee)...try_invoke() of a token message: `reach` is
\* whether the host delivers the call and decodes an answer; r is what the
\* token answers when it does.  Either failure is an Err for the caller.
try_invoke(callee, reach, tok, r) ==
    IF callee = TokenAddress /\ reach THEN r ELSE Ret("CallFailed", tok)

\* A piggy bank message's outcome: result, piggy storage, token storage.
PRet(res, st, tok) == [res |-> res, st |-> st, tok |-> tok]

\* deposit storing the new balance before the token call.
deposit_commit_first(self, tok, caller, amount, reach) ==
    IF amount = 0 THEN PRet("ZeroAmount", self, tok)
    ELSE LET s1 == [self EXCEPT !.balances[caller] =
                        Some(saturating_add(piggy_balance_of(self, caller), amount))]
             r == try_invoke(self.token_address, reach, tok,
                     transfer_from(tok, PiggyAddress, caller, PiggyAddress, amount))
         IN IF r.res # Ok THEN PRet("TokenTransferFailed", s1, r.st)
            ELSE PRet(Ok, s1, r.st)

deposit(self, tok, caller, amount, reach) ==
    IF amount = 0 THEN PRet("ZeroAmount", self, tok)
    ELSE LET contract_h160 == convert_account_to_h160(PiggyAccountId)
             r == try_invoke(self.token_address, reach, tok,
                     transfer_from(tok, PiggyAddress, caller, contract_h160, amount))
         IN IF r.res # Ok THEN PRet("TokenTransferFailed", self, r.st)
            ELSE LET current_balance == piggy_balance_of(self, caller)
                     new_balance == saturating_add(current_balance, amount)
                 IN PRet(Ok, [self EXCEPT !.balances[caller] = Some(new_balance)], r.st)

\* set_goal storing the goal for every account.
set_goal_for_all(self, tok, caller, goal) ==
    PRet(Ok, [self EXCEPT !.goals = [a \in Users |-> Some(goal)]], tok)

set_goal(self, tok, caller, goal) ==
    PRet(Ok, [self EXCEPT !.goals[caller] = Some(goal)], tok)

\* set_lock_time refusing to move a stored lock time back.
set_lock_time_extend_only(self, tok, caller, lock_time) ==
    IF self.lock_times[caller] # None /\ lock_time < self.lock_times[caller][1]
    THEN PRet("WithdrawalTooEarly", self, tok)
    ELSE PRet(Ok, [self EXCEPT !.lock_times[caller] = Some(lock_time)], tok)

set_lock_time(self, tok, caller, lock_time) ==
    PRet(Ok, [self EXCEPT !.lock_times[caller] = Some(lock_time)], tok)

\* The lock test with <= for <.
locked_inclusive(self, caller, block_timestamp) ==
    self.lock_times[caller] # None /\ block_timestamp <= self.lock_times[caller][1]

\* `if let Some(lock_time) = lock_times.get(caller) { block_timestamp() < lock_time }`
locked(self, caller, block_timestamp) ==
    self.lock_times[caller] # None /\ block_timestamp < self.lock_times[caller][1]

\* withdraw testing the lock time before the amount and the balance.
withdraw_lock_first(self, tok, caller, amount, reach, block_timestamp) ==
    LET current_balance == piggy_balance_of(self, caller) IN
    IF locked(self, caller, block_timestamp)
    THEN PRet("WithdrawalTooEarly", self, tok)
    ELSE IF amount = 0 THEN PRet("ZeroAmount", self, tok)
    ELSE IF current_balance < amount THEN PRet("InsufficientBalance", self, tok)
    ELSE LET new_balance == saturating_sub(current_balance, amount)
             s1 == [self EXCEPT !.balances[caller] = Some(new_balance)]
             r == try_invoke(self.token_address, reach, tok,
                     transfer(tok, PiggyAddress, caller, amount))
         IN IF r.res # Ok THEN PRet("TokenTransferFailed", s1, r.st)
            ELSE PRet(Ok, s1, r.st)

\* withdraw storing the new balance only after the token call succeeded.
withdraw_call_then_commit(self, tok, caller, amount, reach, block_timestamp) ==
    LET current_balance == piggy_balance_of(self, caller) IN
    IF amount = 0 THEN PRet("ZeroAmount", self, tok)
    ELSE IF current_balance < amount THEN PRet("InsufficientBalance", self, tok)
    ELSE IF locked(self, caller, block_timestamp)
    THEN PRet("WithdrawalTooEarly", self, tok)
    ELSE LET r == try_invoke(self.token_address, reach, tok,
                     transfer(tok, PiggyAddress, caller, amount))
         IN IF r.res # Ok THEN PRet("TokenTransferFailed", self, r.st)
            ELSE PRet(Ok, [self EXCEPT !.balances[caller] =
                              Some(saturating_sub(current_balance, amount))], r.st)

withdraw(self, tok, caller, amount, reach, block_timestamp) ==
    LET current_balance == piggy_balance_of(self, caller) IN
    IF amount = 0 THEN PRet("ZeroAmount", self, tok)
    ELSE IF current_balance < amount THEN PRet("InsufficientBalance", self, tok)
    ELSE IF locked(self, caller, block_timestamp)
    THEN PRet("WithdrawalTooEarly", self, tok)
    ELSE LET new_balance == saturating_sub(current_balance, amount)
             s1 == [self EXCEPT !.balances[caller] = Some(new_balance)]
             r == try_invoke(self.token_address, reach, tok,
                     transfer(tok, PiggyAddress, caller, amount))
         IN IF r.res # Ok THEN PRet("TokenTransferFailed", s1, r.st)
            ELSE PRet(Ok, s1, r.st)

\* break_piggy_bank removing the entries only after the token call succeeded.
break_piggy_bank_call_first(self, tok, caller, reach, block_timestamp) ==
    LET balance == piggy_balance_of(self, caller) IN
    IF balance = 0 THEN PRet("InsufficientBalance", self, tok)
    ELSE IF locked(self, caller, block_timestamp)
    THEN PRet("WithdrawalTooEarly", self, tok)
    ELSE LET r == try_invoke(self.token_address, reach, tok,
                     transfer(tok, PiggyAddress, caller, balance))
         IN IF r.res # Ok THEN PRet("TokenTransferFailed", self, r.st)
            ELSE PRet(Ok, [self EXCEPT !.balances[caller] = None,
                                       !.goals[caller] = None,
                                       !.lock_times[caller] = None], r.st)

break_piggy_bank(self, tok, caller, reach, block_timestamp) ==
    LET balance == piggy_balance_of(self, caller) IN
    IF balance = 0 THEN PRet("InsufficientBalance", self, tok)
    ELSE IF locked(self, caller, block_timestamp)
    THEN PRet("WithdrawalTooEarly", self, tok)
    ELSE LET s1 == [self EXCEPT !.balances[caller] = None,
                                !.goals[caller] = None,
                                !.lock_times[caller] = None]
             r == try_invoke(self.token_address, reach, tok,
                     transfer(tok, PiggyAddress, caller, balance))
         IN IF r.res # Ok THEN PRet("TokenTransferFailed", s1, r.st)
            ELSE PRet(Ok, s1, r.st)

\* withdraw_if_goal_reached testing the goal only for a non-zero amount
\* within the balance.
withdraw_if_goal_reached_goal_last(self, tok, caller, amount, reach, block_timestamp) ==
    LET current_balance == piggy_balance_of(self, caller) IN
    IF amount = 0 THEN PRet("ZeroAmount", self, tok)
    ELSE IF current_balance < amount THEN PRet("InsufficientBalance", self, tok)
    ELSE IF self.goals[caller] # None /\ current_balance < self.goals[caller][1]
    THEN PRet("GoalNotReached", self, tok)
    ELSE withdraw(self, tok, caller, amount, reach, block_timestamp)

withdraw_if_goal_reached(self, tok, caller, amount, reach, block_timestamp) ==
    LET current_balance == piggy_balance_of(self, caller) IN
    IF self.goals[caller] # None /\ current_balance < self.goals[caller][1]
    THEN PRet("GoalNotReached", self, tok)
    ELSE withdraw(self, tok, caller, amount, reach, block_timestamp)

\* token_balance(): any failure of the call reads as 0.
token_balance(self, tok, reach) ==
    LET contract_h160 == convert_account_to_h160(PiggyAccountId) IN
    IF self.token_address = TokenAddress /\ reach
    THEN balance_of(tok, contract_h160) ELSE 0

(* ------------------------------ the system ----------------------------- *)

\* The recipients lists batch_transfer is called with.
BatchInputs == UNION {[1..n -> Accounts \X {1, BalanceMax}] : n \in 0..MaxBatch}

\* Both contracts as constructed: the token by alice with any initial supply,
\* the piggy bank with the token's address.  initial_supply keeps the
\* constructor's argument; the clock starts at 0.
Init ==
    /\ initial_supply \in InitialSupplies
    /\ token = Token_new("alice", initial_supply)
    /\ piggy = Piggy_new("alice", TokenAddress)
    /\ now = 0
    /\ last = [op |-> "new", res |-> Ok]
    /\ steps = 0

\* A token message by `caller` with outcome r.
TokenStep(op, caller, r) ==
    /\ token' = r.st
    /\ last' = [op |-> op, res |-> r.res]
    /\ steps' = steps + 1
    /\ UNCHANGED <<piggy, now, initial_supply>>

\* A piggy bank message by `caller` with outcome r.
PiggyStep(op, caller, r) ==
    /\ piggy' = r.st
    /\ token' = r.tok
    /\ last' = [op |-> op, res |-> r.res]
    /\ steps' = steps + 1
    /\ UNCHANGED <<now, initial_supply>>

Transfer(c, to, v) == TokenStep("transfer", c, transfer(token, c, to, v))

Approve(c, sp, v) == TokenStep("approve", c, approve(token, c, sp, v))

TransferFrom(c, from, to, v) ==
    TokenStep("transfer_from", c, transfer_from(token, c, from, to, v))

Mint(c, v) == TokenStep("mint", c, mint(token, c, v))

Burn(c, v) == TokenStep("burn", c, burn(token, c, v))

IncreaseAllowance(c, sp, v) ==
    TokenStep("increase_allowance", c, increase_allowance(token, c, sp, v))

DecreaseAllowance(c, sp, v) ==
    TokenStep("decrease_allowance", c, decrease_allowance(token, c, sp, v))

Pause(c) == TokenStep("pause", c, pause(token, c))

Unpause(c) == TokenStep("unpause", c, unpause(token, c))

BlacklistAddress(c, a) ==
    TokenStep("blacklist_address", c, blacklist_address(token, c, a))

RemoveFromBlacklist(c, a) ==
    TokenStep("remove_from_blacklist", c, remove_from_blacklist(token, c, a))

BatchTransfer(c, rs) ==
    TokenStep("batch_transfer", c, batch_transfer(token, c, rs))

Deposit(c, v, reach) == PiggyStep("deposit", c, deposit(piggy, token, c, v, reach))

SetGoal(c, v) == PiggyStep("set_goal", c, set_goal(piggy, token, c, v))

SetLockTime(c, t) == PiggyStep("set_lock_time", c, set_lock_time(piggy, token, c, t))

Withdraw(c, v, reach) ==
    PiggyStep("withdraw", c, withdraw(piggy, token, c, v, reach, now))

BreakPiggyBank(c, reach) ==
    PiggyStep("break_piggy_bank", c, break_piggy_bank(piggy, token, c, reach, now))

WithdrawIfGoalReached(c, v, reach) ==
    PiggyStep("withdraw_if_goal_reached", c,
              withdraw_if_goal_reached(piggy, token, c, v, reach, now))

\* The host's clock advances between messages; it never goes back.
Tick ==
    /\ now < MaxTime
    /\ now' = now + 1
    /\ UNCHANGED <<token, piggy, initial_supply, last, steps>>

\* The token's transfer messages, by any user with any arguments.
TransferMessage ==
    \/ \E c \in Users, to \in Accounts, v \in Balances : Transfer(c, to, v)
    \/ \E c \in Users, from \in Accounts, to \in Accounts, v \in Balances :
          TransferFrom(c, from, to, v)
    \/ \E c \in Users, rs \in BatchInputs : BatchTransfer(c, rs)

\* The token's allowance and administration messages.
AdminMessage ==
    \/ \E c \in Users, sp \in Accounts, v \in Balances : Approve(c, sp, v)
    \/ \E c \in Users, sp \in Accounts, v \in Balances : IncreaseAllowance(c, sp, v)
    \/ \E c \in Users, sp \in Accounts, v \in Balances : DecreaseAllowance(c, sp, v)
    \/ \E c \in Users : Pause(c)
    \/ \E c \in Users : Unpause(c)
    \/ \E c \in Users, a \in Accounts : BlacklistAddress(c, a)
    \/ \E c \in Users, a \in Accounts : RemoveFromBlacklist(c, a)

\* The token's supply messages.
SupplyMessage ==
    \/ \E c \in Users, v \in Balances : Mint(c, v)
    \/ \E c \in Users, v \in Balances : Burn(c, v)

\* The piggy bank's messages, by any user with any arguments, the token call
\* delivered or not.
PiggyMessage ==
    \/ \E c \in Users, v \in Balances, reach \in BOOLEAN : Deposit(c, v, reach)
    \/ \E c \in Users, v \in Balances : SetGoal(c, v)
    \/ \E c \in Users, t \in Times : SetLockTime(c, t)
    \/ \E c \in Users, v \in Balances, reach \in BOOLEAN : Withdraw(c, v, reach)
    \/ \E c \in Users, reach \in BOOLEAN : BreakPiggyBank(c, reach)
    \/ \E c \in Users, v \in Balances, reach \in BOOLEAN :
          WithdrawIfGoalReached(c, v, reach)

Next ==
    \/ steps < MaxSteps /\ TransferMessage
    \/ steps < MaxSteps /\ AdminMessage
    \/ steps < MaxSteps /\ SupplyMessage

\* The token alone: every message, by any user with any arguments.
Spec == Init /\ [][Next]_vars

\* The token without its supply messages mint and burn.
NextTransfers ==
    \/ steps < MaxSteps /\ TransferMessage
    \/ steps < MaxSteps /\ AdminMessage

SpecTransfers == Init /\ [][NextTransfers]_vars

\* The token's batches, with the messages that set what a transfer reads
\* besides the sender's balance, the pause flag and the blacklist, and the
\* approval of a full allowance between users.
NextBatch ==
    \/ steps < MaxSteps /\ \E c \in Users, rs \in BatchInputs : BatchTransfer(c, rs)
    \/ steps < MaxSteps /\ SupplyMessage
    \/ steps < MaxSteps /\ \E c \in Users : Pause(c)
    \/ steps < MaxSteps /\ \E c \in Users : Unpause(c)
    \/ steps < MaxSteps /\ \E c \in Users, a \in Accounts : BlacklistAddress(c, a)
    \/ steps < MaxSteps /\ \E c \in Users, a \in Accounts : RemoveFromBlacklist(c, a)
    \/ steps < MaxSteps /\ \E c \in Users, sp \in Users : Approve(c, sp, BalanceMax)

SpecBatch == Init /\ [][NextBatch]_vars

\* One saver's dealings with the piggy bank: the saver's piggy bank messages
\* and the token messages that decide how the piggy bank's token calls end:
\* the approval a deposit spends, mint, the pause switch and the blacklist.
SaverMessage(c) ==
    \/ \E v \in Balances, reach \in BOOLEAN : Deposit(c, v, reach)
    \/ \E v \in Balances : SetGoal(c, v)
    \/ \E t \in Times : SetLockTime(c, t)
    \/ \E v \in Balances, reach \in BOOLEAN : Withdraw(c, v, reach)
    \/ \E reach \in BOOLEAN : BreakPiggyBank(c, reach)
    \/ \E v \in Balances, reach \in BOOLEAN : WithdrawIfGoalReached(c, v, reach)
    \/ \E v \in Balances : Approve(c, PiggyAddress, v)
    \/ \E v \in Balances : Mint(c, v)
    \/ Pause(c)
    \/ Unpause(c)
    \/ \E a \in Accounts : BlacklistAddress(c, a)
    \/ \E a \in Accounts : RemoveFromBlacklist(c, a)

\* The saver is alice, who holds the initial supply.
NextPiggy ==
    \/ steps < MaxPiggySteps /\ SaverMessage("alice")
    \/ Tick

SpecPiggy == Init /\ [][NextPiggy]_vars

\* Both savers with the piggy bank: every piggy bank message, and the token
\* messages that give a saver tokens and let the piggy bank draw them.
NextSavers ==
    \/ steps < MaxPiggySteps /\ PiggyMessage
    \/ steps < MaxPiggySteps /\ \E c \in Users : Approve(c, PiggyAddress, BalanceMax)
    \/ steps < MaxPiggySteps /\ \E c \in Users : Mint(c, BalanceMax)
    \/ Tick

SpecSavers == Init /\ [][NextSavers]_vars

\* Deposits and withdrawals of both savers, delivered or not, with the token
\* messages a deposit needs: the approval of the piggy bank and mint.
NextDeposits ==
    \/ steps < MaxDepositSteps /\ \E c \in Users, v \in Balances, reach \in BOOLEAN :
           Deposit(c, v, reach)
    \/ steps < MaxDepositSteps /\ \E c \in Users, v \in Balances, reach \in BOOLEAN :
           Withdraw(c, v, reach)
    \/ steps < MaxDepositSteps /\ \E c \in Users : Approve(c, PiggyAddress, BalanceMax)
    \/ steps < MaxDepositSteps /\ \E c \in Users : Mint(c, BalanceMax)

SpecDeposits == Init /\ [][NextDeposits]_vars

(* ------------------------------- claims -------------------------------- *)

\* The exact sum of all account balances of the token.
SumOfBalances == SumOver(token.balances, Accounts)

\* The messages that go through transfer_from_to.
TransferOps == {"transfer", "transfer_from", "batch_transfer"}

\* C1: in every reachable state of the token the sum of all account balances
\* equals total_supply.
C1_SupplyIsSumOfBalances == SumOfBalances = token.total_supply

\* C2: over runs without mint and burn, total_supply never changes and the
\* sum of all balances stays equal to the initial supply.
C2_TransfersConserveSupply ==
    /\ token.total_supply = initial_supply
    /\ SumOfBalances = initial_supply

\* C2 witness: a transfer message succeeded and moved tokens to bob.
C2_Witness ==
    /\ last.op \in TransferOps
    /\ last.res = Ok
    /\ token.balances["bob"] > 0

\* The amounts a message that moves tokens is called with.
Amounts == 1..BalanceMax

\* C3: a deposit of amount > 0 asks the token for transfer_from(caller, piggy
\* bank, amount); when that call fails or is not delivered the deposit returns
\* TokenTransferFailed and changes nothing; only when it succeeded is the
\* caller's piggy bank balance raised by amount (saturating), goal and lock
\* time untouched.
C3_DepositCommitsAfterCall ==
    \A c \in Users, amount \in Amounts, reach \in BOOLEAN :
        LET call == transfer_from(token, PiggyAddress, c, PiggyAddress, amount)
            r == deposit(piggy, token, c, amount, reach)
            bal == unwrap_or(piggy.balances[c], 0)
        IN IF reach /\ call.res = Ok
           THEN /\ r.res = Ok
                /\ r.tok = call.st
                /\ r.st = [piggy EXCEPT !.balances[c] =
                              Some(IF bal + amount > BalanceMax
                                   THEN BalanceMax ELSE bal + amount)]
           ELSE /\ r.res = "TokenTransferFailed"
                /\ r.st = piggy
                /\ r.tok = token

\* C3 witness: a deposit failed with TokenTransferFailed although the saver
\* had approved the piggy bank, and the saver holds no piggy bank balance.
C3_Witness ==
    /\ last.op = "deposit"
    /\ last.res = "TokenTransferFailed"
    /\ token.allowances[<<"alice", PiggyAddress>>] > 0
    /\ piggy.balances["alice"] = None

\* C4: a withdraw that passes its local checks stores the lowered piggy bank
\* balance before it asks the token for transfer(caller, amount); when that
\* call fails the withdraw returns TokenTransferFailed, the lowered balance
\* stays and no token balance moved.
C4_WithdrawKeepsDecrement ==
    \A c \in Users, amount \in Amounts, reach \in BOOLEAN :
        LET bal == unwrap_or(piggy.balances[c], 0)
            unlocked == piggy.lock_times[c] = None \/ now >= piggy.lock_times[c][1]
            call == transfer(token, PiggyAddress, c, amount)
            r == withdraw(piggy, token, c, amount, reach, now)
        IN (bal >= amount /\ unlocked) =>
              /\ r.st = [piggy EXCEPT !.balances[c] = Some(bal - amount)]
              /\ IF reach /\ call.res = Ok
                 THEN r.res = Ok /\ r.tok = call.st
                 ELSE r.res = "TokenTransferFailed" /\ r.tok = token

\* C4 witness: a withdraw failed with TokenTransferFailed; the saver's piggy
\* bank balance is 0 while the piggy bank still holds tokens in the ledger.
C4_Witness ==
    /\ last.op = "withdraw"
    /\ last.res = "TokenTransferFailed"
    /\ piggy.balances["alice"] = Some(0)
    /\ token.balances[PiggyAddress] > 0

\* C5: while the clock is before an account's stored lock time, its withdraw
\* (amount > 0 within the balance), its withdraw_if_goal_reached that reaches
\* withdraw and its break_piggy_bank (balance > 0) fail with
\* WithdrawalTooEarly and change nothing; from the lock time on none of them
\* returns WithdrawalTooEarly and each succeeds when the token call succeeds.
C5_LockTimeGate ==
    \A c \in Users, amount \in Amounts, reach \in BOOLEAN :
        LET bal == unwrap_or(piggy.balances[c], 0)
            goal_met == piggy.goals[c] = None \/ bal >= piggy.goals[c][1]
            w == withdraw(piggy, token, c, amount, reach, now)
            g == withdraw_if_goal_reached(piggy, token, c, amount, reach, now)
            b == break_piggy_bank(piggy, token, c, reach, now)
            early == PRet("WithdrawalTooEarly", piggy, token)
            paid(v) == reach /\ transfer(token, PiggyAddress, c, v).res = Ok
        IN piggy.lock_times[c] # None =>
              IF now < piggy.lock_times[c][1]
              THEN /\ bal >= amount => w = early
                   /\ (bal >= amount /\ goal_met) => g = early
                   /\ bal > 0 => b = early
              ELSE /\ w.res # "WithdrawalTooEarly"
                   /\ g.res # "WithdrawalTooEarly"
                   /\ b.res # "WithdrawalTooEarly"
                   /\ (bal >= amount /\ paid(amount)) => w.res = Ok
                   /\ (bal >= amount /\ goal_met /\ paid(amount)) => g.res = Ok
                   /\ (bal > 0 /\ paid(bal)) => b.res = Ok

\* C5 witness: a withdraw was rejected with WithdrawalTooEarly.
C5_Witness ==
    /\ last.op = "withdraw"
    /\ last.res = "WithdrawalTooEarly"
    /\ piggy.lock_times["alice"] # None
    /\ now < piggy.lock_times["alice"][1]

\* What transfer_from answers while the allowance check or the pause check
\* rejects it: the allowance is tested first.
PausedAnswer(c, from, v) ==
    IF token.allowances[<<from, c>>] < v THEN "InsufficientAllowance" ELSE "Paused"

\* While the token is paused every transfer fails with Paused, every
\* transfer_from fails with InsufficientAllowance when the allowance is below
\* the value and with Paused otherwise, and neither changes the storage.
PausedRejects ==
    token.paused =>
        \A c \in Accounts, from \in Accounts, to \in Accounts, v \in Balances :
            /\ transfer(token, c, to, v) = Ret("Paused", token)
            /\ transfer_from(token, c, from, to, v) =
                   Ret(PausedAnswer(c, from, v), token)

\* A successful pause leaves the token paused, and a paused token stays paused
\* in every step but a successful unpause.
PausedUntilUnpause ==
    /\ (last'.op = "pause" /\ last'.res = Ok) => token'.paused
    /\ (token.paused /\ ~token'.paused) => (last'.op = "unpause" /\ last'.res = Ok)

\* C6 (as first stated): once the token is paused every transfer and every
\* transfer_from fails with Paused.
C6_PausedFailsWithPaused ==
    (token.paused /\ last.op \in {"transfer", "transfer_from"}) => last.res = "Paused"

\* C6 (amended): from a successful pause until a successful unpause every
\* transfer fails with Paused and every transfer_from fails, with
\* InsufficientAllowance when allowance(from, caller) < value and with Paused
\* otherwise.
C6_PauseGate == []PausedRejects /\ [][PausedUntilUnpause]_vars

\* C6 witness: a transfer was rejected with Paused.
C6_Witness ==
    /\ token.paused
    /\ last.op = "transfer"
    /\ last.res = "Paused"

\* C7 (as first stated): a transfer or transfer_from with a blacklisted party
\* fails with Blacklisted and changes no balance.
C7_BlacklistedFailsWithBlacklisted ==
    \A c \in Accounts, from \in Accounts, to \in Accounts, v \in Balances :
        /\ (token.blacklist[c] \/ token.blacklist[to]) =>
               LET r == transfer(token, c, to, v) IN
               r.res = "Blacklisted" /\ r.st.balances = token.balances
        /\ (token.blacklist[from] \/ token.blacklist[to]) =>
               LET r == transfer_from(token, c, from, to, v) IN
               r.res = "Blacklisted" /\ r.st.balances = token.balances

\* C7 (amended): a transfer or transfer_from with a blacklisted party fails
\* and changes nothing; the error is Blacklisted unless an earlier check
\* rejects the call: InsufficientAllowance for a transfer_from whose allowance
\* is below the value, Paused for a paused token.
C7_BlacklistGate ==
    \A c \in Accounts, from \in Accounts, to \in Accounts, v \in Balances :
        LET gate == IF token.paused THEN "Paused" ELSE "Blacklisted" IN
        /\ (token.blacklist[c] \/ token.blacklist[to]) =>
               transfer(token, c, to, v) = Ret(gate, token)
        /\ (token.blacklist[from] \/ token.blacklist[to]) =>
               transfer_from(token, c, from, to, v) =
                   Ret(IF token.allowances[<<from, c>>] < v
                       THEN "InsufficientAllowance" ELSE gate, token)

\* C7 witness: a transfer was rejected with Blacklisted.
C7_Witness ==
    /\ last.op = "transfer"
    /\ last.res = "Blacklisted"
    /\ \E a \in Accounts : token.blacklist[a]

\* C8: approve(spender, v) by owner sets allowance(owner, spender) to v
\* whatever it was, and a successful transfer_from(owner, to, x) by spender
\* on an allowance v has x <= v and leaves allowance(owner, spender) = v - x.
C8_AllowanceBound ==
    \A owner \in Accounts, spender \in Accounts, x \in Balances :
        LET v == token.allowances[<<owner, spender>>]
            approved == approve(token, owner, spender, x)
        IN /\ approved.res = Ok
           /\ approved.st.allowances[<<owner, spender>>] = x
           /\ \A to \in Accounts :
                  LET r == transfer_from(token, spender, owner, to, x) IN
                  r.res = Ok =>
                      (x <= v /\ r.st.allowances[<<owner, spender>>] = v - x)

\* C8 witness: a transfer_from succeeded and left part of the allowance.
C8_Witness ==
    /\ last.op = "transfer_from"
    /\ last.res = Ok
    /\ token.allowances[<<"alice", "bob">>] = 1
    /\ token.balances["alice"] < initial_supply

RECURSIVE Outcomes(_, _, _)
\* What each entry of rs answers and leaves when the entries go through
\* transfer one after the other.
Outcomes(self, c, rs) ==
    IF rs = <<>> THEN <<>>
    ELSE LET r == transfer(self, c, rs[1][1], rs[1][2])
         IN <<r>> \o Outcomes(r.st, c, Tail(rs))

\* C10: batch_transfer applies transfer to its entries in order; it returns
\* the first failing entry's error with the entries before it applied and
\* none after it, and Ok with every entry applied when none fails.
C10_BatchStopsAtFirstError ==
    \A c \in Users, rs \in BatchInputs :
        LET r == batch_transfer(token, c, rs)
            out == Outcomes(token, c, rs)
            before(n) == IF n = 0 THEN token ELSE out[n].st
            failing == {n \in 1..Len(rs) : out[n].res # Ok}
        IN IF failing = {}
           THEN r = Ret(Ok, before(Len(rs)))
           ELSE LET first == CHOOSE n \in failing : \A m \in failing : n <= m
                IN r = Ret(out[first].res, before(first - 1))

\* C10 witness: the first message was a batch_transfer that failed with
\* InsufficientBalance after an earlier entry had paid bob.
C10_Witness ==
    /\ steps = 1
    /\ last.op = "batch_transfer"
    /\ last.res = "InsufficientBalance"
    /\ token.balances["bob"] > 0

\* Every outcome a token message by caller c can have from the storage self,
\* batch_transfer left aside.
MessageOutcomes(self, c) ==
    {transfer(self, c, to, v) : to \in Accounts, v \in Balances}
    \cup {transfer_from(self, c, from, to, v) :
              from \in Accounts, to \in Accounts, v \in Balances}
    \cup {approve(self, c, sp, v) : sp \in Accounts, v \in Balances}
    \cup {increase_allowance(self, c, sp, v) : sp \in Accounts, v \in Balances}
    \cup {decrease_allowance(self, c, sp, v) : sp \in Accounts, v \in Balances}
    \cup {mint(self, c, v) : v \in Balances}
    \cup {burn(self, c, v) : v \in Balances}
    \cup {pause(self, c), unpause(self, c)}
    \cup {blacklist_address(self, c, a) : a \in Accounts}
    \cup {remove_from_blacklist(self, c, a) : a \in Accounts}

\* C11: pause, unpause, blacklist_address and remove_from_blacklist by an
\* account other than the owner return Unauthorized and change nothing; no
\* message by such an account, batches included, changes the pause flag or
\* the blacklist; and no message by anyone changes the owner, who stays the
\* account that constructed the token.
C11_OnlyOwnerAdministers ==
    /\ token.owner = "alice"
    /\ \A c \in Accounts :
           /\ \A r \in MessageOutcomes(token, c) : r.st.owner = token.owner
           /\ \A rs \in BatchInputs :
                  batch_transfer(token, c, rs).st.owner = token.owner
    /\ \A c \in Accounts \ {token.owner} :
           /\ pause(token, c) = Ret("Unauthorized", token)
           /\ unpause(token, c) = Ret("Unauthorized", token)
           /\ \A a \in Accounts :
                  /\ blacklist_address(token, c, a) = Ret("Unauthorized", token)
                  /\ remove_from_blacklist(token, c, a) = Ret("Unauthorized", token)
           /\ \A r \in MessageOutcomes(token, c) :
                  /\ r.st.paused = token.paused
                  /\ r.st.blacklist = token.blacklist
           /\ \A rs \in BatchInputs :
                  LET r == batch_transfer(token, c, rs) IN
                  /\ r.st.paused = token.paused
                  /\ r.st.blacklist = token.blacklist

\* C11 witness: the owner paused the token and a non-owner's unpause was
\* then rejected with Unauthorized, the token still paused.
C11_Witness ==
    /\ last.op = "unpause"
    /\ last.res = "Unauthorized"
    /\ token.paused

\* C12: a transfer, transfer_from, burn, decrease_allowance, pause, unpause,
\* blacklist_address or remove_from_blacklist that returns an error leaves
\* the whole token storage as it was before the call.
C12_ErrorsChangeNothing ==
    \A c \in Accounts :
        LET unchanged(r) == r.res # Ok => r.st = token IN
        /\ \A to \in Accounts, v \in Balances : unchanged(transfer(token, c, to, v))
        /\ \A from \in Accounts, to \in Accounts, v \in Balances :
               unchanged(transfer_from(token, c, from, to, v))
        /\ \A v \in Balances : unchanged(burn(token, c, v))
        /\ \A sp \in Accounts, v \in Balances :
               unchanged(decrease_allowance(token, c, sp, v))
        /\ unchanged(pause(token, c))
        /\ unchanged(unpause(token, c))
        /\ \A a \in Accounts :
               /\ unchanged(blacklist_address(token, c, a))
               /\ unchanged(remove_from_blacklist(token, c, a))

\* C12 witness: a transfer_from passed the allowance check and failed in the
\* transfer, the allowance still in place.
C12_Witness ==
    /\ last.op = "transfer_from"
    /\ last.res \in {"InsufficientBalance", "Paused", "Blacklisted"}
    /\ \E a \in Accounts, b \in Accounts : token.allowances[<<a, b>>] > 0

\* C13: whenever transfer, transfer_from, burn, decrease_allowance or withdraw
\* gets as far as subtracting from a token balance, an allowance or a piggy
\* bank balance, the stored value is at least the amount subtracted: the
\* entry it leaves is the exact difference, never a clamped 0.
C13_DebitsNeverClamp ==
    /\ \A c \in Accounts, to \in Accounts, v \in Balances :
           /\ LET r == transfer(token, c, to, v) IN
              r.res = Ok =>
                  /\ token.balances[c] >= v
                  /\ c # to => r.st.balances[c] = token.balances[c] - v
           /\ \A from \in Accounts :
                  LET r == transfer_from(token, c, from, to, v) IN
                  r.res = Ok =>
                      /\ token.balances[from] >= v
                      /\ token.allowances[<<from, c>>] >= v
                      /\ from # to => r.st.balances[from] = token.balances[from] - v
                      /\ r.st.allowances[<<from, c>>] =
                             token.allowances[<<from, c>>] - v
           /\ LET r == burn(token, c, v) IN
              r.res = Ok =>
                  /\ token.balances[c] >= v
                  /\ r.st.balances[c] = token.balances[c] - v
           /\ LET r == decrease_allowance(token, c, to, v) IN
              r.res = Ok =>
                  /\ token.allowances[<<c, to>>] >= v
                  /\ r.st.allowances[<<c, to>>] = token.allowances[<<c, to>>] - v
    /\ \A c \in Users, amount \in Balances, reach \in BOOLEAN :
           LET bal == unwrap_or(piggy.balances[c], 0)
               r == withdraw(piggy, token, c, amount, reach, now)
           IN r.res \in {Ok, "TokenTransferFailed"} =>
                  /\ bal >= amount
                  /\ r.st.balances[c] = Some(bal - amount)

\* C13 witness: a withdraw of the saver's whole piggy bank balance went
\* through and left the entry at 0, the tokens back with the saver.
C13_Witness ==
    /\ last.op = "withdraw"
    /\ last.res = Ok
    /\ piggy.balances["alice"] = Some(0)
    /\ token.balances["alice"] > 0

\* C14: is_goal_reached(a) is true exactly when a goal is stored for a and a's
\* piggy bank balance is at least that goal; it is false when no goal is
\* stored, as after a break_piggy_bank that got past its checks, and false
\* after a withdraw that takes the balance below a goal still stored.
C14_GoalPredicate ==
    \A a \in Users :
        LET bal == unwrap_or(piggy.balances[a], 0) IN
        /\ is_goal_reached(piggy, a) <=>
               (piggy.goals[a] # None /\ bal >= piggy.goals[a][1])
        /\ piggy.goals[a] = None => ~is_goal_reached(piggy, a)
        /\ \A reach \in BOOLEAN :
               LET b == break_piggy_bank(piggy, token, a, reach, now) IN
               b.res \in {Ok, "TokenTransferFailed"} =>
                   /\ b.st.goals[a] = None
                   /\ ~is_goal_reached(b.st, a)
        /\ \A amount \in Amounts, reach \in BOOLEAN :
               LET w == withdraw(piggy, token, a, amount, reach, now) IN
               (/\ w.res \in {Ok, "TokenTransferFailed"}
                /\ piggy.goals[a] # None
                /\ bal - amount < piggy.goals[a][1]) =>
                   /\ w.st.goals[a] = piggy.goals[a]
                   /\ ~is_goal_reached(w.st, a)

\* C14 witness: a withdraw succeeded and left the saver's balance below the
\* goal that is still stored.
C14_Witness ==
    /\ last.op = "withdraw"
    /\ last.res = Ok
    /\ piggy.goals["alice"] = Some(1)
    /\ piggy.balances["alice"] = Some(0)
    /\ ~is_goal_reached(piggy, "alice")

\* C15: withdraw_if_goal_reached(amount) by a caller with a stored goal above
\* the caller's piggy bank balance fails with GoalNotReached and changes
\* nothing, whatever the amount; in every other case its result and the piggy
\* bank and token storage it leaves are those of withdraw(amount).
C15_GoalGateThenWithdraw ==
    \A c \in Users, amount \in Balances, reach \in BOOLEAN :
        LET bal == unwrap_or(piggy.balances[c], 0)
            g == withdraw_if_goal_reached(piggy, token, c, amount, reach, now)
        IN IF piggy.goals[c] # None /\ bal < piggy.goals[c][1]
           THEN g = PRet("GoalNotReached", piggy, token)
           ELSE g = withdraw(piggy, token, c, amount, reach, now)

\* C15 witness: a withdraw_if_goal_reached was rejected with GoalNotReached
\* while the saver held a balance short of the goal.
C15_Witness ==
    /\ last.op = "withdraw_if_goal_reached"
    /\ last.res = "GoalNotReached"
    /\ piggy.goals["alice"] = Some(BalanceMax)
    /\ piggy.balances["alice"] = Some(1)

\* C16: break_piggy_bank fails with InsufficientBalance on a piggy bank
\* balance of 0 and with WithdrawalTooEarly before the lock time, changing
\* nothing; otherwise it removes the caller's balance, goal and lock time
\* entries (balance_of, goal_of and lock_time_of read 0, is_goal_reached is
\* false) and asks the token to transfer the whole former balance to the
\* caller; the entries stay removed whether that call succeeds or fails.
C16_BreakRemovesThenPays ==
    \A c \in Users, reach \in BOOLEAN :
        LET bal == unwrap_or(piggy.balances[c], 0)
            early == piggy.lock_times[c] # None /\ now < piggy.lock_times[c][1]
            call == transfer(token, PiggyAddress, c, bal)
            b == break_piggy_bank(piggy, token, c, reach, now)
        IN IF bal = 0 THEN b = PRet("InsufficientBalance", piggy, token)
           ELSE IF early THEN b = PRet("WithdrawalTooEarly", piggy, token)
           ELSE /\ b.st = [piggy EXCEPT !.balances[c] = None,
                                        !.goals[c] = None,
                                        !.lock_times[c] = None]
                /\ piggy_balance_of(b.st, c) = 0
                /\ goal_of(b.st, c) = 0
                /\ lock_time_of(b.st, c) = 0
                /\ ~is_goal_reached(b.st, c)
                /\ IF reach /\ call.res = Ok
                   THEN b.res = Ok /\ b.tok = call.st
                   ELSE b.res = "TokenTransferFailed" /\ b.tok = token

\* C16 witness: a break_piggy_bank failed in the token call; the saver's
\* entries are gone while the piggy bank still holds the tokens.
C16_Witness ==
    /\ last.op = "break_piggy_bank"
    /\ last.res = "TokenTransferFailed"
    /\ piggy.balances["alice"] = None
    /\ token.balances[PiggyAddress] > 0

\* The smaller of a + b and the largest Balance.
CappedSum(a, b) == IF a + b >= BalanceMax THEN BalanceMax ELSE a + b

\* C17: mint(value) by any account, owner or not, returns Ok, raises the
\* caller's balance and total_supply by value, each capped at the largest
\* Balance, and changes no other balance, no allowance and nothing else.
C17_MintIsOpen ==
    \A c \in Accounts, v \in Balances :
        mint(token, c, v) =
            Ret(Ok, [token EXCEPT
                        !.balances[c] = CappedSum(token.balances[c], v),
                        !.total_supply = CappedSum(token.total_supply, v)])

\* C17 witness: the first message was a mint by bob, who is not the owner,
\* and total_supply is at the cap.
C17_Witness ==
    /\ steps = 1
    /\ last.op = "mint"
    /\ last.res = Ok
    /\ token.owner # "bob"
    /\ token.balances["bob"] = BalanceMax
    /\ token.total_supply = BalanceMax

\* C18: transfer_from(from, to, value) answers InsufficientAllowance when
\* allowance(from, caller) < value, whatever the pause flag, the blacklist and
\* from's balance are; with enough allowance it answers Paused, then
\* Blacklisted, then InsufficientBalance, in that order of precedence; the
\* allowance is lowered by value when the transfer succeeded and is untouched
\* otherwise.
C18_TransferFromCheckOrder ==
    \A c \in Accounts, from \in Accounts, to \in Accounts, v \in Balances :
        LET r == transfer_from(token, c, from, to, v)
            expected ==
                IF token.allowances[<<from, c>>] < v THEN "InsufficientAllowance"
                ELSE IF token.paused THEN "Paused"
                ELSE IF token.blacklist[from] \/ token.blacklist[to] THEN "Blacklisted"
                ELSE IF token.balances[from] < v THEN "InsufficientBalance"
                ELSE Ok
        IN /\ r.res = expected
           /\ r.st.allowances =
                  IF r.res = Ok
                  THEN [token.allowances EXCEPT ![<<from, c>>] = @ - v]
                  ELSE token.allowances

\* C18 witness: a transfer_from on a paused token was rejected with
\* InsufficientAllowance.
C18_Witness ==
    /\ last.op = "transfer_from"
    /\ last.res = "InsufficientAllowance"
    /\ token.paused

\* C19: withdraw(amount) tests the amount, then the piggy bank balance, then
\* the lock time: amount 0 answers ZeroAmount, an amount above the balance
\* answers InsufficientBalance, both also before the lock time; only a
\* non-zero amount within the balance answers WithdrawalTooEarly; the three
\* rejections change neither the piggy bank nor the token.
C19_WithdrawCheckOrder ==
    \A c \in Users, amount \in Balances, reach \in BOOLEAN :
        LET bal == unwrap_or(piggy.balances[c], 0)
            early == piggy.lock_times[c] # None /\ now < piggy.lock_times[c][1]
            w == withdraw(piggy, token, c, amount, reach, now)
        IN IF amount = 0 THEN w = PRet("ZeroAmount", piggy, token)
           ELSE IF amount > bal THEN w = PRet("InsufficientBalance", piggy, token)
           ELSE IF early THEN w = PRet("WithdrawalTooEarly", piggy, token)
           ELSE w.res \in {Ok, "TokenTransferFailed"}

\* C19 witness: before the lock time a withdraw above the saver's balance
\* was rejected with InsufficientBalance.
C19_Witness ==
    /\ last.op = "withdraw"
    /\ last.res = "InsufficientBalance"
    /\ piggy.balances["alice"] = Some(1)
    /\ piggy.lock_times["alice"] # None
    /\ now < piggy.lock_times["alice"][1]

\* C20: set_goal and set_lock_time return Ok and overwrite the caller's own
\* goal or lock time entry and nothing else; no piggy bank message by an
\* account changes the piggy bank balance, goal or lock time of another.
C20_OwnEntriesOnly ==
    \A c \in Users :
        LET others(st) == \A b \in Users \ {c} :
                /\ st.balances[b] = piggy.balances[b]
                /\ st.goals[b] = piggy.goals[b]
                /\ st.lock_times[b] = piggy.lock_times[b]
        IN /\ \A goal \in Balances :
                  set_goal(piggy, token, c, goal) =
                      PRet(Ok, [piggy EXCEPT !.goals[c] = Some(goal)], token)
           /\ \A t \in Times :
                  set_lock_time(piggy, token, c, t) =
                      PRet(Ok, [piggy EXCEPT !.lock_times[c] = Some(t)], token)
           /\ \A amount \in Balances, reach \in BOOLEAN :
                  /\ others(deposit(piggy, token, c, amount, reach).st)
                  /\ others(withdraw(piggy, token, c, amount, reach, now).st)
                  /\ others(withdraw_if_goal_reached(piggy, token, c, amount,
                                                     reach, now).st)
                  /\ others(break_piggy_bank(piggy, token, c, reach, now).st)

\* C20 witness: alice broke her piggy bank and her entries are gone while
\* the goal bob stored is still there.
C20_Witness ==
    /\ last.op = "break_piggy_bank"
    /\ last.res = Ok
    /\ piggy.balances["alice"] = None
    /\ piggy.goals["alice"] = None
    /\ piggy.goals["bob"] = Some(BalanceMax)

\* C21: increase_allowance(spender, d) returns Ok and sets
\* allowance(caller, spender) to the old value plus d, capped at the largest
\* Balance; decrease_allowance(spender, d) sets it to the old value minus d
\* when the old value is at least d and otherwise returns
\* InsufficientAllowance and changes nothing; neither changes a balance,
\* another allowance or anything else.
C21_AllowanceDeltas ==
    \A c \in Accounts, sp \in Accounts, d \in Balances :
        LET old == token.allowances[<<c, sp>>] IN
        /\ increase_allowance(token, c, sp, d) =
               Ret(Ok, [token EXCEPT !.allowances[<<c, sp>>] = CappedSum(old, d)])
        /\ decrease_allowance(token, c, sp, d) =
               IF old >= d
               THEN Ret(Ok, [token EXCEPT !.allowances[<<c, sp>>] = old - d])
               ELSE Ret("InsufficientAllowance", token)

\* C21 witness: a decrease_allowance above the stored allowance was rejected
\* and the allowance is still there.
C21_Witness ==
    /\ last.op = "decrease_allowance"
    /\ last.res = "InsufficientAllowance"
    /\ \E c \in Users, sp \in Accounts : token.allowances[<<c, sp>>] = 1

\* In a step that raises the piggy bank balance of an account, the step is a
\* successful deposit of some amount by that account, the token has made the
\* transfer_from(account, piggy bank, amount) the piggy bank asked for, and
\* the balance is higher by that amount.
RaisedByDeposit ==
    \A a \in Users :
        LET bal == unwrap_or(piggy.balances[a], 0)
            raised == unwrap_or(piggy'.balances[a], 0)
        IN raised > bal =>
               /\ last'.op = "deposit"
               /\ last'.res = Ok
               /\ \E amount \in Amounts :
                      LET call == transfer_from(token, PiggyAddress, a,
                                                PiggyAddress, amount)
                      IN /\ call.res = Ok
                         /\ token' = call.st
                         /\ raised = bal + amount

\* C22: over any run, a piggy bank balance rises in a step only if the step
\* is a deposit(amount) by that account whose token transfer_from succeeded,
\* and then by exactly amount; so a balance leaves 0 only through such a
\* deposit.
C22_OnlyDepositsRaise == [][RaisedByDeposit]_vars

\* The piggy bank balance each saver reads, 0 when no entry is stored.
PiggyBalances == [a \in Users |-> unwrap_or(piggy.balances[a], 0)]

\* C23: in every reachable state of the two contracts together the piggy
\* bank balances of all accounts sum to at most the token balance of the
\* piggy bank's address.
C23_PiggyBankSolvent ==
    SumOver(PiggyBalances, Users) <= token.balances[PiggyAddress]

\* C24: set_lock_time returns Ok whatever the caller's stored lock time, the
\* clock and the caller's balance are, so a locked account can store a lock
\* time that is not after the clock, and then neither its withdraw nor its
\* break_piggy_bank answers WithdrawalTooEarly; set_goal returns Ok at any
\* time too, and the goal it stores decides withdraw_if_goal_reached: above
\* the balance the call answers GoalNotReached, otherwise it is withdraw.
C24_LockAndGoalReplaceable ==
    \A c \in Users :
        LET bal == unwrap_or(piggy.balances[c], 0) IN
        /\ \A t \in Times :
               LET s == set_lock_time(piggy, token, c, t) IN
               /\ s.res = Ok
               /\ s.st.lock_times[c] = Some(t)
               /\ t <= now =>
                      \A reach \in BOOLEAN :
                          /\ break_piggy_bank(s.st, s.tok, c, reach, now).res
                                 # "WithdrawalTooEarly"
                          /\ \A amount \in Amounts :
                                 withdraw(s.st, s.tok, c, amount, reach, now).res
                                     # "WithdrawalTooEarly"
        /\ \A goal \in Balances :
               LET s == set_goal(piggy, token, c, goal) IN
               /\ s.res = Ok
               /\ s.st.goals[c] = Some(goal)
               /\ \A amount \in Amounts, reach \in BOOLEAN :
                      withdraw_if_goal_reached(s.st, s.tok, c, amount, reach, now) =
                          IF bal < goal
                          THEN PRet("GoalNotReached", s.st, s.tok)
                          ELSE withdraw(s.st, s.tok, c, amount, reach, now)

\* C24 witness: the saver holds a balance, a set_lock_time has just stored a
\* lock time that is not after the clock, and a withdraw is not rejected
\* with WithdrawalTooEarly.
C24_Witness ==
    /\ last.op = "set_lock_time"
    /\ last.res = Ok
    /\ unwrap_or(piggy.balances["alice"], 0) > 0
    /\ piggy.lock_times["alice"] # None
    /\ piggy.lock_times["alice"][1] <= now
    /\ withdraw(piggy, token, "alice", 1, TRUE, now).res # "WithdrawalTooEarly"

\* The token storage with the pause flag off and nobody on the blacklist.
Unrestricted == [token EXCEPT !.paused = FALSE,
                              !.blacklist = [a \in Accounts |-> FALSE]]

\* The outcome r of a message on the token is the outcome r0 of the same
\* message on the unrestricted storage, pause flag and blacklist aside.
SameAsUnrestricted(r, r0) ==
    /\ r.res = r0.res
    /\ r.st = [r0.st EXCEPT !.paused = token.paused,
                            !.blacklist = token.blacklist]

\* C25: mint, burn, approve, increase_allowance and decrease_allowance do
\* what they do on an unpaused token with an empty blacklist, whatever the
\* pause flag and the blacklist are; and on a paused token no message changes
\* a balance but mint and burn, which change the caller's own only.
C25_GatesOnTransferPathOnly ==
    /\ \A c \in Accounts, v \in Balances :
           /\ SameAsUnrestricted(mint(token, c, v), mint(Unrestricted, c, v))
           /\ SameAsUnrestricted(burn(token, c, v), burn(Unrestricted, c, v))
           /\ \A sp \in Accounts :
                  /\ SameAsUnrestricted(approve(token, c, sp, v),
                                        approve(Unrestricted, c, sp, v))
                  /\ SameAsUnrestricted(increase_allowance(token, c, sp, v),
                                        increase_allowance(Unrestricted, c, sp, v))
                  /\ SameAsUnrestricted(decrease_allowance(token, c, sp, v),
                                        decrease_allowance(Unrestricted, c, sp, v))
    /\ token.paused =>
           \A c \in Accounts :
               /\ \A r \in MessageOutcomes(token, c) :
                      \A a \in Accounts :
                          r.st.balances[a] # token.balances[a] =>
                              /\ a = c
                              /\ \E v \in Balances :
                                     r \in {mint(token, c, v), burn(token, c, v)}
               /\ \A rs \in BatchInputs :
                      batch_transfer(token, c, rs).st.balances = token.balances

\* C25 witness: on a paused token a mint by bob succeeded and bob holds the
\* minted tokens.
C25_Witness ==
    /\ last.op = "mint"
    /\ last.res = Ok
    /\ token.paused
    /\ token.balances["bob"] > 0

\* C26: from any state, a successful deposit(a) by an account followed at
\* once by its successful withdraw(a) leaves the account's token balance, the
\* piggy bank's token balance, the account's piggy bank balance and
\* total_supply as they were before the deposit; the one net change is that
\* allowance(account, piggy bank) is lower by a.
C26_DepositWithdrawRoundTrip ==
    \A c \in Users, a \in Amounts :
        LET d == deposit(piggy, token, c, a, TRUE)
            w == withdraw(d.st, d.tok, c, a, TRUE, now)
        IN (d.res = Ok /\ w.res = Ok) =>
               /\ w.tok.balances = token.balances
               /\ w.tok.total_supply = token.total_supply
               /\ piggy_balance_of(w.st, c) = piggy_balance_of(piggy, c)
               /\ w.tok = [token EXCEPT !.allowances[<<c, PiggyAddress>>] = @ - a]
               /\ w.st.goals = piggy.goals
               /\ w.st.lock_times = piggy.lock_times
               /\ \A b \in Users \ {c} : w.st.balances[b] = piggy.balances[b]

\* C27 (as first stated): on an unpaused token, a transfer to the caller's
\* own account and a transfer_from with from = to, the account not
\* blacklisted and holding at least value, succeed and leave every balance
\* as it was.
C27_SelfTransferSucceeds ==
    \A c \in Accounts, a \in Accounts, v \in Balances :
        (~token.paused /\ ~token.blacklist[a] /\ token.balances[a] >= v) =>
            /\ transfer(token, a, a, v) = Ret(Ok, token)
            /\ LET r == transfer_from(token, c, a, a, v) IN
               r.res = Ok /\ r.st.balances = token.balances

\* C27 (amended): on an unpaused token, with the account not blacklisted and
\* holding at least value, a transfer to the caller's own account succeeds
\* and changes nothing, and a transfer_from with from = to by a caller whose
\* allowance is at least value succeeds and changes nothing but that
\* allowance, lowered by value; with a smaller allowance it fails with
\* InsufficientAllowance and changes nothing.
C27_SelfTransferKeepsBalances ==
    \A c \in Accounts, a \in Accounts, v \in Balances :
        (~token.paused /\ ~token.blacklist[a] /\ token.balances[a] >= v) =>
            /\ transfer(token, a, a, v) = Ret(Ok, token)
            /\ transfer_from(token, c, a, a, v) =
                   IF token.allowances[<<a, c>>] >= v
                   THEN Ret(Ok, [token EXCEPT !.allowances[<<a, c>>] = @ - v])
                   ELSE Ret("InsufficientAllowance", token)

\* C27 witness: bob's transfer_from on alice's allowance succeeded and spent
\* part of it while alice still holds the whole initial supply.
C27_Witness ==
    /\ steps = 2
    /\ last.op = "transfer_from"
    /\ last.res = Ok
    /\ token.balances["alice"] = initial_supply
    /\ token.allowances[<<"alice", "bob">>] = BalanceMax - 1

====
